---- MODULE Spec2Model ----
(***************************************************************************)
(* GPT-Bus: the trip / rider / payment ledger of the bus-rental roster.    *)
(*                                                                         *)
(* The model follows the modular server (src/unnamed/part_001 mounting the *)
(* routers of src/src/routes and the dashboard router of                   *)
(* src/unnamed/part_005) on one sqlite3 connection.  One SQL statement is  *)
(* one atomic step; a handler that issues its next statement from the      *)
(* callback of the previous one is a sequence of steps, and steps of       *)
(* different requests interleave.                                          *)
(***************************************************************************)
EXTENDS Integers, FiniteSets, Sequences, TLC

(* ------------------------------ bounds -------------------------------- *)
MaxTrips == 2
MaxRiders == 1
MaxPayments == 2
MaxInFlight == 2

TripIds == 1..MaxTrips
RiderIds == 1..MaxRiders
Slots == 1..MaxInFlight

VARIABLES
    trips,          \* table trips: id -> row
    riders,         \* table riders: the ids of its rows
    trip_riders,    \* table trip_riders: a set of rows
    payments,       \* table payments: a set of rows
    emergency_contacts, \* table emergency_contacts: a set of rows
    medical_notes,  \* table medical_notes: the rider ids of its rows
    req,            \* per connection slot: the request in flight and where it stands
    ev,             \* what the last step did: statement, its error, the response sent
    everActivated   \* history: some activate-one statement has changed a row

vars == <<trips, riders, trip_riders, payments, emergency_contacts, medical_notes,
         req, ev, everActivated>>

(* ------------------------------ values -------------------------------- *)
\* An SQL value of a numeric column or aggregate: NULL or a number.
Null == [null |-> TRUE, v |-> 0]
Num(n) == [null |-> FALSE, v |-> n]

\* A JavaScript number that may be NaN (the result of parseInt / parseFloat).
NaN == [nan |-> TRUE, v |-> 0]
JsNum(n) == [nan |-> FALSE, v |-> n]

\* The numerals the forms of this model submit, with their numeric value.
Numerals ==
    [s \in {"-5", "0", "1", "2", "4", "10", "50", "100", "150", "500", "1000"} |->
        CASE s = "-5" -> -5 [] s = "0" -> 0 [] s = "1" -> 1 [] s = "2" -> 2 [] s = "4" -> 4 [] s = "10" -> 10
          [] s = "50" -> 50 [] s = "100" -> 100 [] s = "150" -> 150
          [] s = "500" -> 500 [] s = "1000" -> 1000]

ParseInt(s) == IF s \in DOMAIN Numerals THEN JsNum(Numerals[s]) ELSE NaN
ParseFloat(s) == IF s \in DOMAIN Numerals THEN JsNum(Numerals[s]) ELSE NaN

\* Date.parse: NaN for a string that is no date.
Dates == {"2025-06-01", "2025-06-08"}
DateParseIsNaN(s) == s \notin Dates

Idle == [op |-> "idle"]
NoResp == [status |-> 0]
Redirect(to) == [status |-> 302, location |-> to, flash |-> ""]
RedirectFlash(to, flash) == [status |-> 302, location |-> to, flash |-> flash]
SendStatus(status, text) == [status |-> status, location |-> "", flash |-> "", text |-> text]
Render(view, locals) ==
    [status |-> 200, location |-> "", flash |-> "", view |-> view, locals |-> locals]

\* The sum of the values of a function with a finite domain.
RECURSIVE SumFn(_)
SumFn(f) ==
    IF DOMAIN f = {} THEN 0
    ELSE LET k == CHOOSE k \in DOMAIN f : TRUE
         IN f[k] + SumFn([j \in DOMAIN f \ {k} |-> f[j]])
\* What a step leaves in ev: the statement it ran, whether the statement failed,
\* the request it belongs to (op and the fields the response depends on) and the
\* response it sent, if any.
Event(stmt, err, r, resp) == [stmt |-> stmt, err |-> err, req |-> r, resp |-> resp]

ActiveTrips == {t \in DOMAIN trips : trips[t].is_active = 1}

MaxOf(S) == CHOOSE m \in S : \A x \in S : x <= m
\* The rowid sqlite gives a new row of an INTEGER PRIMARY KEY table.
NextRowId(ids) == IF ids = {} THEN 1 ELSE MaxOf(ids) + 1

\* A new request takes the lowest free slot among `among`.
LowestFree(s, among) == s \in among /\ req[s] = Idle /\ \A q \in among : q < s => req[q] # Idle

(* ------------------------------- trips -------------------------------- *)
TripForms ==
    { [name |-> "Trip", start_date |-> "2025-06-01", cost_of_rental |-> "1000",
       cost_per_seat |-> "100", total_seats |-> "10"],
      [name |-> "Trip", start_date |-> "2025-06-08", cost_of_rental |-> "500",
       cost_per_seat |-> "50", total_seats |-> "4"],
      [name |-> "", start_date |-> "2025-06-01", cost_of_rental |-> "1000",
       cost_per_seat |-> "100", total_seats |-> "10"],
      [name |-> "Trip", start_date |-> "next week", cost_of_rental |-> "1000",
       cost_per_seat |-> "100", total_seats |-> "10"],
      [name |-> "Trip", start_date |-> "2025-06-01", cost_of_rental |-> "a lot",
       cost_per_seat |-> "100", total_seats |-> "10"] }

CreateTripRejects(f) ==
    \/ f.name = ""
    \/ DateParseIsNaN(f.start_date)
    \/ ParseFloat(f.cost_of_rental).nan
    \/ ParseFloat(f.cost_per_seat).nan

\* POST /trips: validate, then one INSERT; is_active defaults to 0.
CreateTrip(f) ==
    /\ Cardinality(DOMAIN trips) < MaxTrips
    /\ IF CreateTripRejects(f)
       THEN /\ trips' = trips
            /\ ev' = Event("none", FALSE, [op |-> "createTrip", form |-> f],
                           Redirect("/trips"))
       ELSE LET id == NextRowId(DOMAIN trips)
                row == [is_active |-> 0,
                        cost_of_rental |-> ParseFloat(f.cost_of_rental).v,
                        cost_per_seat |-> ParseFloat(f.cost_per_seat).v,
                        total_seats |-> Numerals[f.total_seats]]
            IN /\ trips' = [t \in DOMAIN trips \cup {id} |->
                               IF t = id THEN row ELSE trips[t]]
               /\ ev' = Event("insert_trip", FALSE, [op |-> "createTrip", form |-> f],
                              Redirect("/trips"))
    /\ UNCHANGED <<riders, trip_riders, payments, emergency_contacts, medical_notes, req, everActivated>>

\* UPDATE trips SET is_active = 0
DeactivateAll == [t \in DOMAIN trips |-> [trips[t] EXCEPT !.is_active = 0]]
\* UPDATE trips SET is_active = 1 WHERE id = ?
ActivateOne(id) ==
    [t \in DOMAIN trips |-> IF t = id THEN [trips[t] EXCEPT !.is_active = 1] ELSE trips[t]]

\* POST /trips/:id/activate, first statement.  The request record keeps, as
\* history, the trips that were active when the request arrived.
ActivateDeactivate(s, id, err) ==
    /\ req[s] = Idle
    /\ LET r == [op |-> "activate", tripId |-> id, before |-> ActiveTrips]
       IN IF err
          THEN /\ trips' = trips
               /\ req' = req
               /\ ev' = Event("deactivate_all", TRUE, r, Redirect("/trips"))
          ELSE /\ trips' = DeactivateAll
               /\ req' = [req EXCEPT ![s] = r]
               /\ ev' = Event("deactivate_all", FALSE, r, NoResp)
    /\ UNCHANGED <<riders, trip_riders, payments, emergency_contacts, medical_notes, everActivated>>

\* POST /trips/:id/activate, second statement, issued from the callback of the first.
ActivateSet(s, err) ==
    /\ req[s].op = "activate"
    /\ IF err
       THEN UNCHANGED <<trips, everActivated>>
       ELSE /\ trips' = ActivateOne(req[s].tripId)
            /\ everActivated' = (everActivated \/ req[s].tripId \in DOMAIN trips)
    /\ req' = [req EXCEPT ![s] = Idle]
    /\ ev' = Event("activate_one", err, req[s], Redirect("/trips"))
    /\ UNCHANGED <<riders, trip_riders, payments, emergency_contacts, medical_notes>>

(* ------------------------------ riders -------------------------------- *)
\* The seats field of the add-rider form.
SeatInputs == {"1", "2"}

\* trip_riders: PRIMARY KEY(trip_id, rider_id), FOREIGN KEY to trips and riders
\* (PRAGMA foreign_keys = ON).
TripRiderPrimaryKeyTaken(t, r) ==
    \E row \in trip_riders : row.trip_id = t /\ row.rider_id = r
TripRiderForeignKeysOk(t, r) == t \in DOMAIN trips /\ r \in riders
TripRiderInsertFails(t, r) ==
    TripRiderPrimaryKeyTaken(t, r) \/ ~TripRiderForeignKeysOk(t, r)

\* Mutant: a trip_riders table without its PRIMARY KEY(trip_id, rider_id).
InsertTripRiderNoPrimaryKey(t, r, seats, balance) ==
    IF ~TripRiderForeignKeysOk(t, r)
    THEN trip_riders
    ELSE trip_riders \cup
           {[trip_id |-> t, rider_id |-> r, seats |-> seats, balance |-> balance,
             instructions_sent |-> 0]}

\* INSERT INTO trip_riders (trip_id, rider_id, seats, balance) VALUES (?, ?, ?, ?)
InsertTripRider(t, r, seats, balance) ==
    IF TripRiderInsertFails(t, r)
    THEN trip_riders
    ELSE trip_riders \cup
           {[trip_id |-> t, rider_id |-> r, seats |-> seats, balance |-> balance,
             instructions_sent |-> 0]}

\* Mutant: the cost of one seat, whatever the seats.
SeatsBalanceOneSeat(seats, cost_per_seat) == cost_per_seat
\* const balance = seats * trip.cost_per_seat
SeatsBalance(seats, cost_per_seat) == seats * cost_per_seat

\* Requests in flight that will still insert a rider row.
RidersToCome == Cardinality({s \in Slots : req[s].op = "addRider" /\ req[s].pc = "insert_rider"})

\* Mutant: the rider row is written before the active trip is looked up.
AddRiderLookupInsertsFirst(s, seats) ==
    /\ req[s] = Idle
    /\ Cardinality(riders) + RidersToCome < MaxRiders
    /\ riders' = riders \cup {NextRowId(riders)}
    /\ req' = req
    /\ ev' = Event("select_active_trip", FALSE,
                   [op |-> "addRider", tripId |-> 0, riderId |-> 0], Redirect("/trips"))
    /\ UNCHANGED <<trips, trip_riders, payments, emergency_contacts, medical_notes, everActivated>>

\* POST /riders/add, first statement: SELECT * FROM trips WHERE is_active = 1.
\* Which row db.get returns when several are active is not specified.
AddRiderLookup(s, seats) ==
    /\ req[s] = Idle
    /\ Cardinality(riders) + RidersToCome < MaxRiders
    /\ IF ActiveTrips = {}
       THEN /\ req' = req
            /\ ev' = Event("select_active_trip", FALSE,
                           [op |-> "addRider", tripId |-> 0, riderId |-> 0],
                           Redirect("/trips"))
       ELSE \E t \in ActiveTrips :
            LET r == [op |-> "addRider", pc |-> "insert_rider", tripId |-> t,
                      seats |-> ParseInt(seats).v, riderId |-> 0,
                      balance |-> SeatsBalance(ParseInt(seats).v, trips[t].cost_per_seat)]
            IN /\ req' = [req EXCEPT ![s] = r]
               /\ ev' = Event("select_active_trip", FALSE,
                              [op |-> "addRider", tripId |-> t, riderId |-> 0], NoResp)
    /\ UNCHANGED <<trips, riders, trip_riders, payments, emergency_contacts, medical_notes, everActivated>>

\* POST /riders/add, second statement: INSERT INTO riders; this.lastID is the new id.
AddRiderInsert(s) ==
    /\ req[s].op = "addRider" /\ req[s].pc = "insert_rider"
    /\ LET id == NextRowId(riders)
           r == [req[s] EXCEPT !.pc = "insert_trip_rider", !.riderId = id]
       IN /\ riders' = riders \cup {id}
          /\ req' = [req EXCEPT ![s] = r]
          /\ ev' = Event("insert_rider", FALSE,
                         [op |-> "addRider", tripId |-> r.tripId, riderId |-> id], NoResp)
    /\ UNCHANGED <<trips, trip_riders, payments, emergency_contacts, medical_notes, everActivated>>

\* POST /riders/add, third statement: INSERT INTO trip_riders; an error is thrown
\* from the callback and no response is sent.
AddRiderLink(s, err) ==
    /\ req[s].op = "addRider" /\ req[s].pc = "insert_trip_rider"
    /\ LET r == req[s]
           fails == err \/ TripRiderInsertFails(r.tripId, r.riderId)
       IN /\ trip_riders' = IF err THEN trip_riders
                            ELSE InsertTripRider(r.tripId, r.riderId, r.seats, r.balance)
          /\ ev' = Event("insert_trip_rider", fails,
                         [op |-> "addRider", tripId |-> r.tripId, riderId |-> r.riderId],
                         IF fails THEN NoResp ELSE Redirect("/dashboard"))
    /\ req' = [req EXCEPT ![s] = Idle]
    /\ UNCHANGED <<trips, riders, payments, emergency_contacts, medical_notes, everActivated>>

(* ----------------------- adding riders to a trip ----------------------- *)
\* req.body.seats[riderId] of the add-riders form: a numeral, or left empty.
BatchSeatInputs == {"2", ""}
BatchSeatMaps == {[r \in RiderIds |-> x] : x \in BatchSeatInputs}
\* req.body.selected_riders: absent, one id, or an array of ids.
Selections ==
    {[shape |-> "absent", ids |-> <<>>]}
      \cup {[shape |-> "one", ids |-> <<r>>] : r \in RiderIds}
      \cup {[shape |-> "array", ids |-> <<a, b>>] : a \in RiderIds, b \in RiderIds}

\* The selections a JSON body can also carry: the same, and an empty array, which
\* passes the guard (!selectedRiders is false for an array).
BatchSelections == Selections \cup {[shape |-> "array", ids |-> <<>>]}

\* parseInt(x) || 1
ParseIntOrOne(x) == IF ParseInt(x).nan \/ ParseInt(x).v = 0 THEN 1 ELSE ParseInt(x).v

\* POST /trips/:id/add-riders: the guard on the selection and
\* SELECT * FROM trips WHERE id = ?; every INSERT of the batch is queued here.
AddRidersLookup(s, id, sel, seatsForRider) ==
    /\ req[s] = Idle
    /\ IF sel.shape = "absent" \/ id \notin DOMAIN trips
       THEN /\ req' = req
            /\ ev' = Event(IF sel.shape = "absent" THEN "none" ELSE "select_trip", FALSE,
                           [op |-> "addRiders", tripId |-> id, riderId |-> 0,
                            rejected |-> {}],
                           Redirect("/trips"))
       ELSE LET r == [op |-> "addRiders", pc |-> "insert", tripId |-> id,
                      pending |-> sel.ids, total |-> Len(sel.ids), completed |-> 0,
                      seatsForRider |-> seatsForRider,
                      cost_per_seat |-> trips[id].cost_per_seat,
                      rejected |-> {}]
            IN /\ req' = [req EXCEPT ![s] = r]
               /\ ev' = Event("select_trip", FALSE,
                              [op |-> "addRiders", tripId |-> id, riderId |-> 0,
                               rejected |-> {}],
                              NoResp)
    /\ UNCHANGED <<trips, riders, trip_riders, payments, emergency_contacts, medical_notes, everActivated>>

\* One queued INSERT of the batch and its callback: completed++, and the redirect
\* once completed === total.  The err of the callback is not looked at; the
\* request record keeps, as history, the riders whose INSERT failed.
AddRidersInsert(s) ==
    /\ req[s].op = "addRiders" /\ req[s].pc = "insert"
    /\ req[s].pending # <<>>
    /\ LET r == req[s]
           riderId == Head(r.pending)
           seats == ParseIntOrOne(r.seatsForRider[riderId])
           balance == SeatsBalance(seats, r.cost_per_seat)
           fails == TripRiderInsertFails(r.tripId, riderId)
           after == [r EXCEPT !.pending = Tail(r.pending),
                              !.completed = r.completed + 1,
                              !.rejected = IF fails THEN r.rejected \cup {riderId}
                                           ELSE r.rejected]
           done == after.completed = after.total
       IN /\ trip_riders' = InsertTripRider(r.tripId, riderId, seats, balance)
          /\ req' = [req EXCEPT ![s] = IF done THEN Idle ELSE after]
          /\ ev' = Event("insert_trip_rider", fails,
                         [op |-> "addRiders", tripId |-> r.tripId, riderId |-> riderId,
                          rejected |-> after.rejected],
                         IF done THEN Redirect("/trips") ELSE NoResp)
    /\ UNCHANGED <<trips, riders, payments, emergency_contacts, medical_notes, everActivated>>

(* ------------- adding riders to a trip, in a transaction -------------- *)
\* req.body.selected_riders of the transactional handler: the ids ticked.
TxSelections == SUBSET RiderIds

\* parseInt(req.body.seats[rider.id] || 1)
ParseIntOfOrOne(x) == IF x = "" THEN 1 ELSE ParseInt(x).v

\* The statement that ends the transaction, chosen when the statements are
\* queued from the flag the INSERT callbacks set.
EndOfTransaction(success) == IF success THEN "commit" ELSE "rollback"

\* POST /trip/:id/add-riders, first statement: SELECT * FROM trips WHERE id = ?,
\* and the guard on the ids.
AddRidersTxLookup(s, id, sel, seatsForRider) ==
    /\ req[s] = Idle
    /\ LET info == [op |-> "addRidersTx", tripId |-> id, batch |-> sel, failed |-> {}]
       IN IF id \notin DOMAIN trips \/ sel = {}
          THEN /\ req' = req
               /\ ev' = Event("select_trip", FALSE, info, Redirect("/dashboard"))
          ELSE /\ req' = [req EXCEPT ![s] =
                             [op |-> "addRidersTx", pc |-> "riders", tripId |-> id,
                              batch |-> sel, seatsForRider |-> seatsForRider,
                              cost_per_seat |-> trips[id].cost_per_seat]]
               /\ ev' = Event("select_trip", FALSE, info, NoResp)
    /\ UNCHANGED <<trips, riders, trip_riders, payments, emergency_contacts, medical_notes,
                   everActivated>>

RECURSIVE InsertsOf(_)
\* One INSERT per rider of the batch, in the order of the rows.
InsertsOf(ids) ==
    IF ids = {} THEN <<>>
    ELSE LET r == CHOOSE x \in ids : \A y \in ids : x <= y
         IN <<[stmt |-> "insert_trip_rider", riderId |-> r]>> \o InsertsOf(ids \ {r})

\* POST /trip/:id/add-riders, second statement: SELECT * FROM riders WHERE id IN (...).
\* With riders to add, db.serialize queues BEGIN TRANSACTION, the INSERTs and the
\* end of the transaction; success is read before any INSERT callback has run.
AddRidersTxRiders(s) ==
    /\ req[s].op = "addRidersTx" /\ req[s].pc = "riders"
    /\ LET r == req[s]
           validRiders == r.batch \cap riders
           success == TRUE
           info == [op |-> "addRidersTx", tripId |-> r.tripId, batch |-> validRiders,
                    failed |-> {}]
       IN IF validRiders = {}
          THEN /\ req' = [req EXCEPT ![s] = Idle]
               /\ ev' = Event("select_riders", FALSE, info, Redirect("/dashboard"))
          ELSE /\ req' = [req EXCEPT ![s] =
                             [op |-> "addRidersTx", pc |-> "queue", tripId |-> r.tripId,
                              batch |-> validRiders, seatsForRider |-> r.seatsForRider,
                              cost_per_seat |-> r.cost_per_seat,
                              queue |-> <<[stmt |-> "begin", riderId |-> 0]>>
                                          \o InsertsOf(validRiders)
                                          \o <<[stmt |-> EndOfTransaction(success),
                                                riderId |-> 0]>>,
                              failed |-> {}, before |-> trip_riders]]
               /\ ev' = Event("select_riders", FALSE, info, NoResp)
    /\ UNCHANGED <<trips, riders, trip_riders, payments, emergency_contacts, medical_notes,
                   everActivated>>

\* The next queued statement of the transaction runs.  A failed INSERT leaves the
\* transaction open; COMMIT keeps what was inserted, ROLLBACK restores the rows
\* of BEGIN; the callback of either sends the redirect.
AddRidersTxStatement(s) ==
    /\ req[s].op = "addRidersTx" /\ req[s].pc = "queue"
    /\ LET r == req[s]
           q == Head(r.queue)
           seats == ParseIntOfOrOne(r.seatsForRider[q.riderId])
           fails == q.stmt = "insert_trip_rider" /\ TripRiderInsertFails(r.tripId, q.riderId)
           failed == IF fails THEN r.failed \cup {q.riderId} ELSE r.failed
           last == Len(r.queue) = 1
       IN /\ trip_riders' =
                 CASE q.stmt = "insert_trip_rider" ->
                         InsertTripRider(r.tripId, q.riderId, seats,
                                         SeatsBalance(seats, r.cost_per_seat))
                   [] q.stmt = "begin" -> trip_riders
                   [] q.stmt = "rollback" -> r.before
                   [] OTHER -> trip_riders
          /\ req' = [req EXCEPT ![s] =
                        IF last THEN Idle
                        ELSE [r EXCEPT !.queue = Tail(r.queue), !.failed = failed,
                                       !.before = IF q.stmt = "begin" THEN trip_riders
                                                  ELSE r.before]]
          /\ ev' = Event(q.stmt, fails,
                         [op |-> "addRidersTx", tripId |-> r.tripId, batch |-> r.batch,
                          failed |-> failed, before |-> r.before],
                         IF last THEN Redirect("/dashboard") ELSE NoResp)
    /\ UNCHANGED <<trips, riders, payments, emergency_contacts, medical_notes, everActivated>>

(* ---------------------------- editing riders --------------------------- *)
\* The trip fields of the edit-rider form: seats and balance as typed, the
\* instructions_sent checkbox ("" when not ticked).
EditForms ==
    {[seats |-> n, balance |-> b, instructions_sent |-> i] :
        n \in {"1", "2", "0"}, b \in {"100", "50"}, i \in {"", "on"}}

\* instructions_sent ? 1 : 0
Ticked(x) == IF x = "" THEN 0 ELSE 1

\* UPDATE trip_riders SET seats = ?, balance = ?, instructions_sent = ? WHERE rider_id = ?
\* The columns have INTEGER affinity: the numerals of the form are stored as numbers.
EditedTripRiders(riderId, f) ==
    {IF tr.rider_id = riderId
     THEN [tr EXCEPT !.seats = Numerals[f.seats], !.balance = Numerals[f.balance],
                     !.instructions_sent = Ticked(f.instructions_sent)]
     ELSE tr : tr \in trip_riders}

\* What an edit request tells of itself: the rider and the form.
EditRiderInfo(r) ==
    [op |-> "editRider", riderId |-> r.riderId, form |-> r.form]

\* POST /riders/:id/edit, first statement: UPDATE riders SET name = ?, ... WHERE id = ?
\* (the columns it sets are not part of the state).
EditRiderUpdateRider(s, riderId, f) ==
    /\ req[s] = Idle
    /\ LET r == [op |-> "editRider", riderId |-> riderId, form |-> f]
       IN /\ req' = [req EXCEPT ![s] = r]
          /\ ev' = Event("update_rider", FALSE, EditRiderInfo(r), NoResp)
    /\ UNCHANGED <<trips, riders, trip_riders, payments, emergency_contacts, medical_notes,
                   everActivated>>

\* POST /riders/:id/edit, second statement, and the redirect to the dashboard.
EditRiderUpdateTripRiders(s) ==
    /\ req[s].op = "editRider"
    /\ trip_riders' = EditedTripRiders(req[s].riderId, req[s].form)
    /\ req' = [req EXCEPT ![s] = Idle]
    /\ ev' = Event("update_trip_riders", FALSE, EditRiderInfo(req[s]), Redirect("/dashboard"))
    /\ UNCHANGED <<trips, riders, payments, emergency_contacts, medical_notes, everActivated>>

(* ------------------------------ payments ------------------------------ *)
\* The amount field of the add-payment form.
AmountInputs == {"150", "50"}

PaymentsToCome ==
    Cardinality({s \in Slots : req[s].op = "addPayment" /\ req[s].pc = "insert_payment"})

\* payments: FOREIGN KEY(rider_id) REFERENCES riders, FOREIGN KEY(trip_id) REFERENCES trips.
PaymentInsertFails(r, t) == r \notin riders \/ t \notin DOMAIN trips

\* Mutant: the INSERT of the server variant without trip scoping, which leaves
\* trip_id NULL (written 0).
PaymentRowNoTrip(id, r, t, amount) ==
    [id |-> id, rider_id |-> r, trip_id |-> 0, amount |-> Numerals[amount]]

\* The row of INSERT INTO payments (rider_id, trip_id, date, amount) VALUES (?, ?, ?, ?);
\* the amount column has INTEGER affinity and stores the numeral as a number.
PaymentRow(id, r, t, amount) ==
    [id |-> id, rider_id |-> r, trip_id |-> t, amount |-> Numerals[amount]]

\* Mutant: the payment route without the check for an active trip; the payment goes
\* on, tagged with no trip.
AddPaymentLookupUnchecked(s, riderId, amount) ==
    /\ req[s] = Idle
    /\ Cardinality(payments) + PaymentsToCome < MaxPayments
    /\ \E t \in IF ActiveTrips = {} THEN {0} ELSE ActiveTrips :
          /\ req' = [req EXCEPT ![s] =
                        [op |-> "addPayment", pc |-> "insert_payment",
                         riderId |-> riderId, tripId |-> t, amount |-> amount]]
          /\ ev' = Event("select_active_trip", FALSE,
                         [op |-> "addPayment", riderId |-> riderId, tripId |-> t,
                          amount |-> amount],
                         NoResp)
    /\ UNCHANGED <<trips, riders, trip_riders, payments, emergency_contacts, medical_notes,
                   everActivated>>

\* POST /payments/add/:riderId, first statement: SELECT * FROM trips WHERE is_active = 1.
AddPaymentLookup(s, riderId, amount) ==
    /\ req[s] = Idle
    /\ Cardinality(payments) + PaymentsToCome < MaxPayments
    /\ IF ActiveTrips = {}
       THEN /\ req' = req
            /\ ev' = Event("select_active_trip", FALSE,
                           [op |-> "addPayment", riderId |-> riderId, tripId |-> 0,
                            amount |-> amount],
                           SendStatus(404, "No active trip found"))
       ELSE \E t \in ActiveTrips :
            /\ req' = [req EXCEPT ![s] =
                          [op |-> "addPayment", pc |-> "insert_payment",
                           riderId |-> riderId, tripId |-> t, amount |-> amount]]
            /\ ev' = Event("select_active_trip", FALSE,
                           [op |-> "addPayment", riderId |-> riderId, tripId |-> t,
                            amount |-> amount],
                           NoResp)
    /\ UNCHANGED <<trips, riders, trip_riders, payments, emergency_contacts, medical_notes, everActivated>>

\* POST /payments/add/:riderId, second statement: the INSERT; on success the
\* receipt email is started and the response waits for it.
AddPaymentInsert(s) ==
    /\ req[s].op = "addPayment" /\ req[s].pc = "insert_payment"
    /\ LET r == req[s]
           fails == PaymentInsertFails(r.riderId, r.tripId)
           id == NextRowId({p.id : p \in payments})
           info == [op |-> "addPayment", riderId |-> r.riderId, tripId |-> r.tripId,
                    amount |-> r.amount]
       IN IF fails
          THEN /\ payments' = payments
               /\ req' = [req EXCEPT ![s] = Idle]
               /\ ev' = Event("insert_payment", TRUE, info,
                              SendStatus(500, "Error creating payment"))
          ELSE /\ payments' = payments \cup {PaymentRow(id, r.riderId, r.tripId, r.amount)}
               /\ req' = [req EXCEPT ![s] = [r EXCEPT !.pc = "notify"]]
               /\ ev' = Event("insert_payment", FALSE, info, NoResp)
    /\ UNCHANGED <<trips, riders, trip_riders, emergency_contacts, medical_notes, everActivated>>

\* The running total of the receipt (sendPaymentReceipt): the rider's payments on
\* active trips, filtered on the trip of the payment and summed, plus the amount.
\* It is computed after the INSERT.
ReceiptCurrentBalance(riderId, tripId, amount) ==
    LET rows == {p \in payments :
                    /\ p.rider_id = riderId
                    /\ p.trip_id \in DOMAIN trips /\ trips[p.trip_id].is_active = 1}
        totalPayments == SumFn([p \in {q \in rows : q.trip_id = tripId} |-> p.amount])
    IN totalPayments + Numerals[amount]

\* Mutant: a rejected receipt is answered as a failed request.
ReceiptResponsePropagates(sent) ==
    IF sent THEN RedirectFlash("/rider/:id/payments", "Payment added and receipt emailed")
    ELSE SendStatus(500, "Internal server error")
\* The .then and the .catch of the receipt: both flash and redirect to the
\* rider's payments.
ReceiptResponse(sent) ==
    RedirectFlash("/rider/:id/payments",
                  IF sent THEN "Payment added and receipt emailed"
                  ELSE "Payment added but email failed to send")

\* POST /payments/add/:riderId: the promise of emailService.sendReceiptEmail
\* settles; .then and .catch both redirect to the rider's payments.
AddPaymentNotified(s, sent) ==
    /\ req[s].op = "addPayment" /\ req[s].pc = "notify"
    /\ LET r == req[s]
       IN ev' = Event("send_receipt", ~sent,
                      [op |-> "addPayment", riderId |-> r.riderId, tripId |-> r.tripId,
                       amount |-> r.amount,
                       currentBalance |-> ReceiptCurrentBalance(r.riderId, r.tripId, r.amount)],
                      ReceiptResponse(sent))
    /\ req' = [req EXCEPT ![s] = Idle]
    /\ UNCHANGED <<trips, riders, trip_riders, payments, emergency_contacts, medical_notes, everActivated>>

(* ---------------------- editing, deleting payments --------------------- *)
PaymentIds == 1..MaxPayments

\* The payment row of an id, if there is one.
PaymentExists(id) == \E p \in payments : p.id = id

\* POST /payments/edit/:paymentId, first statement:
\* UPDATE payments SET date = ?, amount = ? WHERE id = ?
EditPaymentUpdate(s, paymentId, amount) ==
    /\ req[s] = Idle
    /\ payments' = {IF p.id = paymentId THEN [p EXCEPT !.amount = Numerals[amount]] ELSE p
                    : p \in payments}
    /\ req' = [req EXCEPT ![s] = [op |-> "editPayment", paymentId |-> paymentId]]
    /\ ev' = Event("update_payment", FALSE,
                   [op |-> "editPayment", paymentId |-> paymentId,
                    found |-> PaymentExists(paymentId)],
                   NoResp)
    /\ UNCHANGED <<trips, riders, trip_riders, emergency_contacts, medical_notes, everActivated>>

\* POST /payments/edit/:paymentId, second statement:
\* SELECT rider_id FROM payments WHERE id = ?, then the redirect to the rider's
\* payments; without a row, reading row.rider_id throws and nothing is sent.
EditPaymentSelect(s) ==
    /\ req[s].op = "editPayment"
    /\ LET found == PaymentExists(req[s].paymentId)
       IN ev' = Event("select_payment_rider", FALSE,
                      [op |-> "editPayment", paymentId |-> req[s].paymentId, found |-> found],
                      IF found THEN RedirectFlash("/rider/:id/payments", "Payment updated")
                      ELSE NoResp)
    /\ req' = [req EXCEPT ![s] = Idle]
    /\ UNCHANGED <<trips, riders, trip_riders, payments, emergency_contacts, medical_notes,
                   everActivated>>

\* POST /payments/delete/:paymentId, first statement:
\* SELECT rider_id FROM payments WHERE id = ?; without a row, reading row.rider_id
\* throws, nothing is sent and the DELETE is not issued.
DeletePaymentSelect(s, paymentId) ==
    /\ req[s] = Idle
    /\ LET found == PaymentExists(paymentId)
           info == [op |-> "deletePayment", paymentId |-> paymentId, found |-> found]
       IN /\ req' = IF found THEN [req EXCEPT ![s] =
                                      [op |-> "deletePayment", paymentId |-> paymentId]]
                    ELSE req
          /\ ev' = Event("select_payment_rider", FALSE, info, NoResp)
    /\ UNCHANGED <<trips, riders, trip_riders, payments, emergency_contacts, medical_notes,
                   everActivated>>

\* POST /payments/delete/:paymentId, second statement: DELETE FROM payments WHERE id = ?
DeletePaymentDelete(s) ==
    /\ req[s].op = "deletePayment"
    /\ payments' = {p \in payments : p.id # req[s].paymentId}
    /\ ev' = Event("delete_payment", FALSE,
                   [op |-> "deletePayment", paymentId |-> req[s].paymentId, found |-> TRUE],
                   RedirectFlash("/rider/:id/payments", "Payment deleted"))
    /\ req' = [req EXCEPT ![s] = Idle]
    /\ UNCHANGED <<trips, riders, trip_riders, emergency_contacts, medical_notes, everActivated>>

(* ------------------------- emergency contacts -------------------------- *)
\* The emergency-contacts form: a primary contact and an optional secondary one.
ContactForms ==
    {[contact1_name |-> "Ann", contact2_name |-> n, contact2_phone |-> ph] :
        n \in {"", "Bob"}, ph \in {"", "555-0102"}}

\* The statements POST /rider/:id/emergency-contacts queues inside db.serialize.
ContactStatements(f) ==
    <<"delete_contacts", "insert_contact1">>
      \o (IF f.contact2_name # "" \/ f.contact2_phone # "" THEN <<"insert_contact2">> ELSE <<>>)
      \o <<"replace_medical_notes">>

\* emergency_contacts and medical_notes: FOREIGN KEY(rider_id) REFERENCES riders(id).
RiderForeignKeyOk(r) == r \in riders

\* Mutant: a database that runs the statements of two submissions in any order.
QueuedBeforeNone(s) == {}
\* The submissions whose statements are in the queue of the database when the
\* statements of a new one are added: statements queued under db.serialize run
\* one at a time, in the order they were queued.
QueuedBefore(s) == {t \in Slots \ {s} : req[t].op = "saveContacts"}

\* POST /rider/:id/emergency-contacts: the handler queues its statements and
\* redirects at once, before any of them has run.
SaveContactsQueue(s, riderId, f) ==
    /\ req[s] = Idle
    /\ req' = [req EXCEPT ![s] =
                  [op |-> "saveContacts", riderId |-> riderId, form |-> f,
                   queue |-> ContactStatements(f), behind |-> QueuedBefore(s)]]
    /\ ev' = Event("none", FALSE, [op |-> "saveContacts", riderId |-> riderId],
                   Redirect("/edit-rider/:id"))
    /\ UNCHANGED <<trips, riders, trip_riders, payments, emergency_contacts, medical_notes,
                   everActivated>>

\* The next queued statement of the form submission runs.  None has a callback:
\* an error is emitted on the database object, which without a listener takes
\* the process down (down) or, with one, is dropped and the queue goes on.
SaveContactsStatement(s, down) ==
    /\ req[s].op = "saveContacts"
    /\ \A t \in req[s].behind : req[t].op # "saveContacts"
    /\ LET r == req[s]
           stmt == Head(r.queue)
           fails == stmt # "delete_contacts" /\ ~RiderForeignKeyOk(r.riderId)
           name(order) == IF order = 1 THEN r.form.contact1_name ELSE r.form.contact2_name
           row(order) == [id |-> NextRowId({c.id : c \in emergency_contacts}),
                          rider_id |-> r.riderId, contact_order |-> order,
                          name |-> name(order)]
           ended == Len(r.queue) = 1 \/ (fails /\ down)
       IN /\ emergency_contacts' =
                 IF fails THEN emergency_contacts
                 ELSE CASE stmt = "delete_contacts" ->
                             {c \in emergency_contacts : c.rider_id # r.riderId}
                        [] stmt = "insert_contact1" -> emergency_contacts \cup {row(1)}
                        [] stmt = "insert_contact2" -> emergency_contacts \cup {row(2)}
                        [] OTHER -> emergency_contacts
          /\ medical_notes' =
                 IF ~fails /\ stmt = "replace_medical_notes"
                 THEN medical_notes \cup {r.riderId} ELSE medical_notes
          /\ req' = [t \in Slots |->
                        IF t = s
                        THEN IF ended THEN Idle ELSE [r EXCEPT !.queue = Tail(r.queue)]
                        ELSE IF ended /\ req[t].op = "saveContacts"
                             THEN [req[t] EXCEPT !.behind = @ \ {s}]
                             ELSE req[t]]
          /\ ev' = Event(stmt, fails, [op |-> "saveContacts", riderId |-> r.riderId], NoResp)
    /\ UNCHANGED <<trips, riders, trip_riders, payments, everActivated>>

(* --------------------------- deleting riders --------------------------- *)
\* Mutant: a connection on which foreign keys are not enforced.
RiderReferencedUnenforced(r) == FALSE
\* A row of some table references the rider (every rider_id column is a foreign
\* key to riders(id), and foreign keys are enforced).
RiderReferenced(r) ==
    \/ \E tr \in trip_riders : tr.rider_id = r
    \/ \E p \in payments : p.rider_id = r
    \/ \E c \in emergency_contacts : c.rider_id = r
    \/ r \in medical_notes

\* Mutant: the delete route without its guard.
HasPaymentsIgnored(paymentCount) == FALSE
\* if (result.paymentCount > 0) return res.redirect("/dashboard");
HasPayments(paymentCount) == paymentCount > 0

\* GET /riders/:id/delete, first statement:
\* SELECT COUNT(*) AS paymentCount FROM payments WHERE rider_id = ?
DeleteRiderCount(s, riderId) ==
    /\ req[s] = Idle
    /\ LET paymentCount == Cardinality({p \in payments : p.rider_id = riderId})
           info == [op |-> "deleteRider", riderId |-> riderId, paymentCount |-> paymentCount]
       IN IF HasPayments(paymentCount)
          THEN /\ req' = req
               /\ ev' = Event("count_payments", FALSE, info, Redirect("/dashboard"))
          ELSE /\ req' = [req EXCEPT ![s] =
                             [op |-> "deleteRider", riderId |-> riderId,
                              paymentCount |-> paymentCount]]
               /\ ev' = Event("count_payments", FALSE, info, NoResp)
    /\ UNCHANGED <<trips, riders, trip_riders, payments, emergency_contacts, medical_notes,
                   everActivated>>

\* GET /riders/:id/delete, second statement: DELETE FROM riders WHERE id = ?;
\* an error is thrown from the callback and no response is sent.
DeleteRiderDelete(s) ==
    /\ req[s].op = "deleteRider"
    /\ LET r == req[s]
           fails == RiderReferenced(r.riderId)
       IN /\ riders' = IF fails THEN riders ELSE riders \ {r.riderId}
          /\ ev' = Event("delete_rider", fails,
                         [op |-> "deleteRider", riderId |-> r.riderId,
                          paymentCount |-> r.paymentCount],
                         IF fails THEN NoResp ELSE Redirect("/dashboard"))
    /\ req' = [req EXCEPT ![s] = Idle]
    /\ UNCHANGED <<trips, trip_riders, payments, emergency_contacts, medical_notes,
                   everActivated>>

\* Mutant: the delete without its trip_id condition.
RemovedFromEveryTrip(r, t) == {tr \in trip_riders : tr.rider_id # r}
\* DELETE FROM trip_riders WHERE rider_id = ? AND trip_id = ?
RemovedFromTrip(r, t) == {tr \in trip_riders : ~(tr.rider_id = r /\ tr.trip_id = t)}

\* GET /delete-rider/:id/from-trip, first statement:
\* SELECT * FROM trips WHERE is_active = 1; without an active trip, to the trips page.
RemoveFromTripLookup(s, riderId) ==
    /\ req[s] = Idle
    /\ IF ActiveTrips = {}
       THEN /\ req' = req
            /\ ev' = Event("select_active_trip", FALSE,
                           [op |-> "removeFromTrip", riderId |-> riderId, tripId |-> 0,
                            removed |-> {}],
                           Redirect("/trips"))
       ELSE \E t \in ActiveTrips :
            /\ req' = [req EXCEPT ![s] =
                          [op |-> "removeFromTrip", riderId |-> riderId, tripId |-> t]]
            /\ ev' = Event("select_active_trip", FALSE,
                           [op |-> "removeFromTrip", riderId |-> riderId, tripId |-> t,
                            removed |-> {}],
                           NoResp)
    /\ UNCHANGED <<trips, riders, trip_riders, payments, emergency_contacts, medical_notes,
                   everActivated>>

\* GET /delete-rider/:id/from-trip, second statement, and the redirect to the
\* dashboard; removed tells the rows the statement deleted.
RemoveFromTripDelete(s) ==
    /\ req[s].op = "removeFromTrip"
    /\ LET r == req[s]
       IN /\ trip_riders' = RemovedFromTrip(r.riderId, r.tripId)
          /\ ev' = Event("delete_trip_rider", FALSE,
                         [op |-> "removeFromTrip", riderId |-> r.riderId, tripId |-> r.tripId,
                          removed |-> trip_riders \ RemovedFromTrip(r.riderId, r.tripId)],
                         Redirect("/dashboard"))
    /\ req' = [req EXCEPT ![s] = Idle]
    /\ UNCHANGED <<trips, riders, payments, emergency_contacts, medical_notes, everActivated>>

\* The statements GET /delete-rider/:id/complete queues inside db.serialize, in
\* the order of the code.
DeleteCompleteStatements ==
    <<"trip_riders", "emergency_contacts", "medical_notes", "payments", "riders">>

\* The rows of the rider in the tables the complete deletion clears.
RiderRows(r) ==
    [trip_riders |-> {tr \in trip_riders : tr.rider_id = r},
     payments |-> {p \in payments : p.rider_id = r},
     emergency_contacts |-> {c \in emergency_contacts : c.rider_id = r},
     rider |-> r \in riders]

\* What the request tells of itself: the deletes attempted so far, the one that
\* failed, and the rider's rows when the request came in.
DeleteCompleteInfo(r) ==
    [op |-> "deleteComplete", riderId |-> r.riderId, attempted |-> r.attempted,
     failed |-> r.failed, before |-> r.before]

\* GET /delete-rider/:id/complete: the handler queues the five deletes.
DeleteCompleteQueue(s, riderId) ==
    /\ req[s] = Idle
    /\ LET r == [op |-> "deleteComplete", riderId |-> riderId,
                 queue |-> DeleteCompleteStatements, attempted |-> <<>>, failed |-> {},
                 before |-> RiderRows(riderId)]
       IN /\ req' = [req EXCEPT ![s] = r]
          /\ ev' = Event("none", FALSE, DeleteCompleteInfo(r), NoResp)
    /\ UNCHANGED <<trips, riders, trip_riders, payments, emergency_contacts, medical_notes,
                   everActivated>>

\* The next queued delete runs.  Only the last one has a callback (it throws the
\* error or redirects to the dashboard); an error of the others is emitted on the
\* database object, which without a listener takes the process down (down) or,
\* with one, is dropped and the queue goes on.
DeleteCompleteStatement(s, err, down) ==
    /\ req[s].op = "deleteComplete"
    /\ LET r == req[s]
           table == Head(r.queue)
           id == r.riderId
           last == Len(r.queue) = 1
           fails == err \/ (table = "riders" /\ RiderReferenced(id))
           after == [r EXCEPT !.queue = Tail(r.queue),
                              !.attempted = Append(r.attempted, table),
                              !.failed = IF fails THEN r.failed \cup {table} ELSE r.failed]
       IN /\ trip_riders' = IF ~fails /\ table = "trip_riders"
                            THEN {tr \in trip_riders : tr.rider_id # id} ELSE trip_riders
          /\ emergency_contacts' = IF ~fails /\ table = "emergency_contacts"
                                   THEN {c \in emergency_contacts : c.rider_id # id}
                                   ELSE emergency_contacts
          /\ medical_notes' = IF ~fails /\ table = "medical_notes"
                              THEN medical_notes \ {id} ELSE medical_notes
          /\ payments' = IF ~fails /\ table = "payments"
                         THEN {p \in payments : p.rider_id # id} ELSE payments
          /\ riders' = IF ~fails /\ table = "riders" THEN riders \ {id} ELSE riders
          /\ req' = [req EXCEPT ![s] = IF last \/ (fails /\ down) THEN Idle ELSE after]
          /\ ev' = Event("delete_" \o table, fails, DeleteCompleteInfo(after),
                         IF last /\ ~fails THEN Redirect("/dashboard") ELSE NoResp)
    /\ UNCHANGED <<trips, everActivated>>

(* ------------------------------ dashboard ------------------------------ *)
\* Mutant: the aggregate used without COALESCE.
CoalesceMissing(x, d) == x
\* COALESCE(x, d)
Coalesce(x, d) == IF x.null THEN d ELSE x
\* SQL subtraction: NULL if either operand is NULL.
SqlSub(a, b) == IF a.null \/ b.null THEN Null ELSE Num(a.v - b.v)
\* SUM over the values of a group: NULL when no value of the group is non-NULL.
SqlSum(vals) ==
    IF \A k \in DOMAIN vals : vals[k].null THEN Null
    ELSE Num(SumFn([k \in {j \in DOMAIN vals : ~vals[j].null} |-> vals[k].v]))
\* JavaScript (x || 0) on a column value.
OrZero(x) == IF x.null \/ x.v = 0 THEN 0 ELSE x.v

\* toLocaleString("en-US", {style: "currency", currency: "USD"}) of a whole number:
\* sign, dollars, two digits of cents.
FormatUSD(n) == [negative |-> n < 0, dollars |-> IF n < 0 THEN -n ELSE n, cents |-> "00"]

\* Mutant: the join of the server variant without trip scoping, ON r.id = p.rider_id.
PaymentJoinsAnyTrip(tr, p) == tr.rider_id = p.rider_id
\* LEFT JOIN payments p ON tr.trip_id = p.trip_id AND r.id = p.rider_id
PaymentJoins(tr, p) == tr.trip_id = p.trip_id /\ tr.rider_id = p.rider_id

\* FROM riders r INNER JOIN trip_riders tr ON r.id = tr.rider_id
\*   LEFT JOIN payments p ON ... WHERE tr.trip_id = ?
\* as joined rows: the trip_riders row with one matching payment, or with NULLs.
JoinedRows(t) ==
    UNION { LET matches == {p \in payments : PaymentJoins(tr, p)}
            IN IF matches = {}
               THEN {[tr |-> tr, pid |-> 0, amount |-> Null]}
               ELSE {[tr |-> tr, pid |-> p.id, amount |-> Num(p.amount)] : p \in matches}
          : tr \in {x \in trip_riders : x.rider_id \in riders /\ x.trip_id = t} }

\* GROUP BY r.id with SUM(p.amount) AS total_payments and
\* (tr.balance - COALESCE(SUM(p.amount), 0)) AS balance, which replaces tr.balance
\* in the row object.
DashboardRows(t) ==
    { LET group == {j \in JoinedRows(t) : j.tr.rider_id = r}
          tr == (CHOOSE j \in group : TRUE).tr
          total == SqlSum([j \in group |-> j.amount])
      IN [id |-> r, seats |-> tr.seats, total_payments |-> total,
          balance |-> SqlSub(Num(tr.balance), Coalesce(total, Num(0)))]
    : r \in {j.tr.rider_id : j \in JoinedRows(t)} }

TotalCollected(rows) == SumFn([row \in rows |-> OrZero(row.total_payments)])
\* Mutant: the number of riders instead of the sum of their seats.
ReservedSeatsCountsRiders(rows) == Cardinality(rows)
ReservedSeats(rows) == SumFn([row \in rows |-> row.seats])

\* The locals of res.render("dashboard", ...).
DashboardLocals(activeTrip, rows) ==
    [riders |-> {[id |-> row.id, seats |-> row.seats,
                  total_payments |-> row.total_payments, balance |-> row.balance,
                  collected |-> FormatUSD(OrZero(row.total_payments))] : row \in rows},
     activeTrip |-> activeTrip,
     COST_OF_RENTAL |-> FormatUSD(activeTrip.cost_of_rental),
     TOTAL_COLLECTED |-> FormatUSD(TotalCollected(rows)),
     REMAINING_FUNDS |-> FormatUSD(activeTrip.cost_of_rental - TotalCollected(rows)),
     RESERVED_SEATS |-> ReservedSeats(rows),
     REMAINING_SEATS |-> activeTrip.total_seats - ReservedSeats(rows),
     TOTAL_SEATS |-> activeTrip.total_seats]

\* GET /dashboard, first statement: SELECT * FROM trips WHERE is_active = 1.
DashboardLookup(s) ==
    /\ req[s] = Idle
    /\ IF ActiveTrips = {}
       THEN /\ req' = [req EXCEPT ![s] = [op |-> "dashboard", pc |-> "count"]]
            /\ ev' = Event("select_active_trip", FALSE, [op |-> "dashboard", tripId |-> 0],
                           NoResp)
       ELSE \E t \in ActiveTrips :
            /\ req' = [req EXCEPT ![s] =
                          [op |-> "dashboard", pc |-> "rows",
                           activeTrip |-> [id |-> t,
                                           cost_of_rental |-> trips[t].cost_of_rental,
                                           cost_per_seat |-> trips[t].cost_per_seat,
                                           total_seats |-> trips[t].total_seats]]]
            /\ ev' = Event("select_active_trip", FALSE, [op |-> "dashboard", tripId |-> t],
                           NoResp)
    /\ UNCHANGED <<trips, riders, trip_riders, payments, emergency_contacts, medical_notes, everActivated>>

\* Mutant: the dashboard that sends every visitor without an active trip to the
\* trips list.
NoActiveTripRedirectToTrips(count) == Redirect("/trips")
\* if (result.count === 0) redirect to /add-trip, else to /trips
NoActiveTripRedirect(count) ==
    IF count = 0 THEN Redirect("/add-trip") ELSE Redirect("/trips")

\* GET /dashboard with no active trip: SELECT COUNT(*) as count FROM trips.
DashboardCount(s) ==
    /\ req[s].op = "dashboard" /\ req[s].pc = "count"
    /\ req' = [req EXCEPT ![s] = Idle]
    /\ ev' = Event("count_trips", FALSE, [op |-> "dashboard", tripId |-> 0],
                   NoActiveTripRedirect(Cardinality(DOMAIN trips)))
    /\ UNCHANGED <<trips, riders, trip_riders, payments, emergency_contacts, medical_notes, everActivated>>

\* GET /dashboard, the riders query and the render.
DashboardRender(s) ==
    /\ req[s].op = "dashboard" /\ req[s].pc = "rows"
    /\ req' = [req EXCEPT ![s] = Idle]
    /\ ev' = Event("select_riders", FALSE,
                   [op |-> "dashboard", tripId |-> req[s].activeTrip.id],
                   Render("dashboard",
                          DashboardLocals(req[s].activeTrip,
                                          DashboardRows(req[s].activeTrip.id))))
    /\ UNCHANGED <<trips, riders, trip_riders, payments, emergency_contacts, medical_notes, everActivated>>

(* --------------------------- specification ---------------------------- *)
Init ==
    /\ trips = <<>>
    /\ riders = {}
    /\ trip_riders = {}
    /\ payments = {}
    /\ emergency_contacts = {}
    /\ medical_notes = {}
    /\ req = [s \in Slots |-> Idle]
    /\ ev = Event("none", FALSE, Idle, NoResp)
    /\ everActivated = FALSE

AllIdle == \A s \in Slots : req[s] = Idle
NoFailure == {FALSE}

\* Trip lifecycle, one request at a time, no statement failing.
NextTripsSeq ==
    \/ \E f \in TripForms : CreateTrip(f)
    \/ \E s \in Slots, id \in TripIds, err \in NoFailure :
          AllIdle /\ LowestFree(s, Slots) /\ ActivateDeactivate(s, id, err)
    \/ \E s \in Slots, err \in NoFailure : ActivateSet(s, err)

SpecTripsSeq == Init /\ [][NextTripsSeq]_vars

\* Trip lifecycle, one request at a time, either statement of an activation
\* may fail.
NextTripsFail ==
    \/ \E f \in TripForms : CreateTrip(f)
    \/ \E s \in Slots, id \in TripIds, err \in BOOLEAN :
          AllIdle /\ LowestFree(s, Slots) /\ ActivateDeactivate(s, id, err)
    \/ \E s \in Slots, err \in BOOLEAN : ActivateSet(s, err)

SpecTripsFail == Init /\ [][NextTripsFail]_vars

\* Trip lifecycle, requests in flight together, no statement failing.
NextTrips ==
    \/ \E f \in TripForms : CreateTrip(f)
    \/ \E s \in Slots, id \in TripIds, err \in NoFailure :
          LowestFree(s, Slots) /\ ActivateDeactivate(s, id, err)
    \/ \E s \in Slots, err \in NoFailure : ActivateSet(s, err)

SpecTrips == Init /\ [][NextTrips]_vars

\* The forms of the roster runs: one valid trip form and the invalid ones; one
\* seats value on the add-rider form, so that a row a batch adds differs from
\* the row the rider was created with.
RosterTripForms == {f \in TripForms : f.cost_per_seat = "100"}
RosterSeatInputs == {"1"}

\* Roster composition, one request at a time.
NextRoster ==
    \/ \E f \in RosterTripForms : AllIdle /\ CreateTrip(f)
    \/ \E s \in Slots, id \in TripIds, err \in NoFailure :
          AllIdle /\ LowestFree(s, Slots) /\ ActivateDeactivate(s, id, err)
    \/ \E s \in Slots, err \in NoFailure : ActivateSet(s, err)
    \/ \E s \in Slots, seats \in RosterSeatInputs :
          AllIdle /\ LowestFree(s, Slots) /\ AddRiderLookup(s, seats)
    \/ \E s \in Slots : AddRiderInsert(s)
    \/ \E s \in Slots, err \in NoFailure : AddRiderLink(s, err)
    \/ \E s \in Slots, id \in TripIds, sel \in Selections, seatsForRider \in BatchSeatMaps :
          AllIdle /\ LowestFree(s, Slots) /\ AddRidersLookup(s, id, sel, seatsForRider)
    \/ \E s \in Slots : AddRidersInsert(s)

SpecRoster == Init /\ [][NextRoster]_vars

\* The roster with a trip_riders insert of addRider that may fail.
NextRosterFail ==
    \/ \E f \in RosterTripForms : AllIdle /\ CreateTrip(f)
    \/ \E s \in Slots, id \in TripIds, err \in NoFailure :
          AllIdle /\ LowestFree(s, Slots) /\ ActivateDeactivate(s, id, err)
    \/ \E s \in Slots, err \in NoFailure : ActivateSet(s, err)
    \/ \E s \in Slots, seats \in RosterSeatInputs :
          AllIdle /\ LowestFree(s, Slots) /\ AddRiderLookup(s, seats)
    \/ \E s \in Slots : AddRiderInsert(s)
    \/ \E s \in Slots, err \in BOOLEAN : AddRiderLink(s, err)
    \/ \E s \in Slots, id \in TripIds, sel \in Selections, seatsForRider \in BatchSeatMaps :
          AllIdle /\ LowestFree(s, Slots) /\ AddRidersLookup(s, id, sel, seatsForRider)
    \/ \E s \in Slots : AddRidersInsert(s)

SpecRosterFail == Init /\ [][NextRosterFail]_vars

\* The forms of the ledger runs: the valid trip forms, riders created with two
\* seats and added to a further trip, alone, with the seats field left empty.
LedgerTripForms == {f \in TripForms : ~CreateTripRejects(f)}
LedgerSeatInputs == {"2"}
LedgerSelections == {sel \in Selections : sel.shape = "one"}
LedgerSeatMaps == {m \in BatchSeatMaps : \A r \in RiderIds : m[r] = ""}

\* No request that writes is in flight.
NoWriter == \A s \in Slots : req[s].op \in {"idle", "dashboard"}

\* The ledger: writing requests one at a time (the single-writer model), every
\* statement succeeding unless a constraint rejects it; dashboard reads start at
\* any time and run together with the writer.
NextLedger ==
    \/ \E f \in LedgerTripForms : NoWriter /\ CreateTrip(f)
    \/ \E s \in Slots, id \in TripIds, err \in NoFailure :
          NoWriter /\ LowestFree(s, Slots) /\ ActivateDeactivate(s, id, err)
    \/ \E s \in Slots, err \in NoFailure : ActivateSet(s, err)
    \/ \E s \in Slots, seats \in LedgerSeatInputs :
          NoWriter /\ LowestFree(s, Slots) /\ AddRiderLookup(s, seats)
    \/ \E s \in Slots : AddRiderInsert(s)
    \/ \E s \in Slots, err \in NoFailure : AddRiderLink(s, err)
    \/ \E s \in Slots, id \in TripIds, sel \in LedgerSelections, seatsForRider \in LedgerSeatMaps :
          NoWriter /\ LowestFree(s, Slots) /\ AddRidersLookup(s, id, sel, seatsForRider)
    \/ \E s \in Slots : AddRidersInsert(s)
    \/ \E s \in Slots, r \in RiderIds, amount \in AmountInputs :
          NoWriter /\ LowestFree(s, Slots) /\ AddPaymentLookup(s, r, amount)
    \/ \E s \in Slots : AddPaymentInsert(s)
    \/ \E s \in Slots, sent \in BOOLEAN : AddPaymentNotified(s, sent)
    \/ \E s \in Slots : LowestFree(s, Slots) /\ DashboardLookup(s)
    \/ \E s \in Slots : DashboardCount(s)
    \/ \E s \in Slots : DashboardRender(s)

SpecLedger == Init /\ [][NextLedger]_vars

\* The forms of the removal runs: one valid trip form per trip, riders with one
\* seat, payments of 50.
RemovalTripForms == {f \in LedgerTripForms : f.cost_per_seat = "100"}
RemovalSeatInputs == {"1"}
RemovalAmountInputs == {"50"}
RemovalContactForms == {f \in ContactForms : (f.contact2_name = "") = (f.contact2_phone = "")}

\* Removal of riders: requests one at a time; riders are created, put on further
\* trips, pay, get emergency contacts and are deleted by either route.  A delete
\* of the complete deletion may fail (err).
NextRemoval ==
    \/ \E f \in RemovalTripForms : AllIdle /\ CreateTrip(f)
    \/ \E s \in Slots, id \in TripIds, err \in NoFailure :
          AllIdle /\ LowestFree(s, Slots) /\ ActivateDeactivate(s, id, err)
    \/ \E s \in Slots, err \in NoFailure : ActivateSet(s, err)
    \/ \E s \in Slots, seats \in RemovalSeatInputs :
          AllIdle /\ LowestFree(s, Slots) /\ AddRiderLookup(s, seats)
    \/ \E s \in Slots : AddRiderInsert(s)
    \/ \E s \in Slots, err \in NoFailure : AddRiderLink(s, err)
    \/ \E s \in Slots, id \in TripIds, sel \in LedgerSelections, seatsForRider \in LedgerSeatMaps :
          AllIdle /\ LowestFree(s, Slots) /\ AddRidersLookup(s, id, sel, seatsForRider)
    \/ \E s \in Slots : AddRidersInsert(s)
    \/ \E s \in Slots, r \in RiderIds, amount \in RemovalAmountInputs :
          AllIdle /\ LowestFree(s, Slots) /\ AddPaymentLookup(s, r, amount)
    \/ \E s \in Slots : AddPaymentInsert(s)
    \/ \E s \in Slots, sent \in BOOLEAN : AddPaymentNotified(s, sent)
    \/ \E s \in Slots, r \in RiderIds, f \in RemovalContactForms :
          AllIdle /\ LowestFree(s, Slots) /\ SaveContactsQueue(s, r, f)
    \/ \E s \in Slots, down \in BOOLEAN : SaveContactsStatement(s, down)
    \/ \E s \in Slots, r \in RiderIds :
          AllIdle /\ LowestFree(s, Slots) /\ DeleteRiderCount(s, r)
    \/ \E s \in Slots : DeleteRiderDelete(s)
    \/ \E s \in Slots, r \in RiderIds :
          AllIdle /\ LowestFree(s, Slots) /\ RemoveFromTripLookup(s, r)
    \/ \E s \in Slots : RemoveFromTripDelete(s)
    \/ \E s \in Slots, r \in RiderIds :
          AllIdle /\ LowestFree(s, Slots) /\ DeleteCompleteQueue(s, r)
    \/ \E s \in Slots, err \in BOOLEAN, down \in BOOLEAN : DeleteCompleteStatement(s, err, down)

SpecRemoval == Init /\ [][NextRemoval]_vars

\* No activation is in flight.
NoActivation == \A s \in Slots : req[s].op # "activate"
\* No payment request is in flight.
NoPayment == \A s \in Slots : req[s].op # "addPayment"

\* Payments against activations: trips and riders are set up one request at a
\* time; an addPayment and an activateTrip may then be in flight together, their
\* statements interleaving.
NextPayRace ==
    \/ \E f \in RemovalTripForms : AllIdle /\ CreateTrip(f)
    \/ \E s \in Slots, id \in TripIds, err \in NoFailure :
          NoActivation /\ LowestFree(s, Slots) /\ ActivateDeactivate(s, id, err)
    \/ \E s \in Slots, err \in NoFailure : ActivateSet(s, err)
    \/ \E s \in Slots, seats \in RemovalSeatInputs :
          AllIdle /\ LowestFree(s, Slots) /\ AddRiderLookup(s, seats)
    \/ \E s \in Slots : AddRiderInsert(s)
    \/ \E s \in Slots, err \in NoFailure : AddRiderLink(s, err)
    \/ \E s \in Slots, r \in RiderIds, amount \in RemovalAmountInputs :
          NoPayment /\ LowestFree(s, Slots) /\ AddPaymentLookup(s, r, amount)
    \/ \E s \in Slots : AddPaymentInsert(s)
    \/ \E s \in Slots, sent \in BOOLEAN : AddPaymentNotified(s, sent)

SpecPayRace == Init /\ [][NextPayRace]_vars

\* The add-trip forms of the validation runs: a form good in every field and the
\* same form with one field spoilt.
GoodTripForm ==
    [name |-> "Trip", start_date |-> "2025-06-01", end_date |-> "2025-06-08",
     cost_of_rental |-> "1000", cost_per_seat |-> "100", total_seats |-> "10"]
ValidationTripForms ==
    { GoodTripForm,
      [GoodTripForm EXCEPT !.name = ""],
      [GoodTripForm EXCEPT !.start_date = "next week"],
      [GoodTripForm EXCEPT !.end_date = "someday"],
      [GoodTripForm EXCEPT !.cost_of_rental = "a lot"],
      [GoodTripForm EXCEPT !.cost_of_rental = "-5"],
      [GoodTripForm EXCEPT !.cost_per_seat = "-5"],
      [GoodTripForm EXCEPT !.total_seats = "0"] }

\* Trip creation over the validation forms, with activations, one request at a time.
NextTripForms ==
    \/ \E f \in ValidationTripForms : AllIdle /\ CreateTrip(f)
    \/ \E s \in Slots, id \in TripIds, err \in NoFailure :
          AllIdle /\ LowestFree(s, Slots) /\ ActivateDeactivate(s, id, err)
    \/ \E s \in Slots, err \in NoFailure : ActivateSet(s, err)

SpecTripForms == Init /\ [][NextTripForms]_vars

\* Editing riders: requests one at a time; riders are created on the active
\* trip, put on a further trip, and edited.
NextEdit ==
    \/ \E f \in RemovalTripForms : AllIdle /\ CreateTrip(f)
    \/ \E s \in Slots, id \in TripIds, err \in NoFailure :
          AllIdle /\ LowestFree(s, Slots) /\ ActivateDeactivate(s, id, err)
    \/ \E s \in Slots, err \in NoFailure : ActivateSet(s, err)
    \/ \E s \in Slots, seats \in RemovalSeatInputs :
          AllIdle /\ LowestFree(s, Slots) /\ AddRiderLookup(s, seats)
    \/ \E s \in Slots : AddRiderInsert(s)
    \/ \E s \in Slots, err \in NoFailure : AddRiderLink(s, err)
    \/ \E s \in Slots, id \in TripIds, sel \in LedgerSelections, seatsForRider \in LedgerSeatMaps :
          AllIdle /\ LowestFree(s, Slots) /\ AddRidersLookup(s, id, sel, seatsForRider)
    \/ \E s \in Slots : AddRidersInsert(s)
    \/ \E s \in Slots, r \in RiderIds, f \in EditForms :
          AllIdle /\ LowestFree(s, Slots) /\ EditRiderUpdateRider(s, r, f)
    \/ \E s \in Slots : EditRiderUpdateTripRiders(s)

SpecEdit == Init /\ [][NextEdit]_vars

\* The seats fields of the seats runs: a good value, zero, a negative number and,
\* for the batch, a field left empty.
SeatsSeatInputs == {"1", "0"}
SeatsSeatMaps == {[r \in RiderIds |-> x] : x \in {"-5", ""}}
SeatsEditForms == {f \in EditForms : f.balance = "100" /\ f.instructions_sent = ""}

\* Seats: riders created, added in batches and edited, one request at a time.
NextSeats ==
    \/ \E f \in RemovalTripForms : AllIdle /\ CreateTrip(f)
    \/ \E s \in Slots, id \in TripIds, err \in NoFailure :
          AllIdle /\ LowestFree(s, Slots) /\ ActivateDeactivate(s, id, err)
    \/ \E s \in Slots, err \in NoFailure : ActivateSet(s, err)
    \/ \E s \in Slots, seats \in SeatsSeatInputs :
          AllIdle /\ LowestFree(s, Slots) /\ AddRiderLookup(s, seats)
    \/ \E s \in Slots : AddRiderInsert(s)
    \/ \E s \in Slots, err \in NoFailure : AddRiderLink(s, err)
    \/ \E s \in Slots, id \in TripIds, sel \in LedgerSelections, seatsForRider \in SeatsSeatMaps :
          AllIdle /\ LowestFree(s, Slots) /\ AddRidersLookup(s, id, sel, seatsForRider)
    \/ \E s \in Slots : AddRidersInsert(s)
    \/ \E s \in Slots, r \in RiderIds, f \in SeatsEditForms :
          AllIdle /\ LowestFree(s, Slots) /\ EditRiderUpdateRider(s, r, f)
    \/ \E s \in Slots : EditRiderUpdateTripRiders(s)

SpecSeats == Init /\ [][NextSeats]_vars

\* Payments added, edited and deleted, one request at a time.
NextPayEdit ==
    \/ \E f \in RemovalTripForms : AllIdle /\ CreateTrip(f)
    \/ \E s \in Slots, id \in TripIds, err \in NoFailure :
          AllIdle /\ LowestFree(s, Slots) /\ ActivateDeactivate(s, id, err)
    \/ \E s \in Slots, err \in NoFailure : ActivateSet(s, err)
    \/ \E s \in Slots, seats \in RemovalSeatInputs :
          AllIdle /\ LowestFree(s, Slots) /\ AddRiderLookup(s, seats)
    \/ \E s \in Slots : AddRiderInsert(s)
    \/ \E s \in Slots, err \in NoFailure : AddRiderLink(s, err)
    \/ \E s \in Slots, r \in RiderIds, amount \in RemovalAmountInputs :
          AllIdle /\ LowestFree(s, Slots) /\ AddPaymentLookup(s, r, amount)
    \/ \E s \in Slots : AddPaymentInsert(s)
    \/ \E s \in Slots, sent \in BOOLEAN : AddPaymentNotified(s, sent)
    \/ \E s \in Slots, id \in PaymentIds, amount \in AmountInputs :
          AllIdle /\ LowestFree(s, Slots) /\ EditPaymentUpdate(s, id, amount)
    \/ \E s \in Slots : EditPaymentSelect(s)
    \/ \E s \in Slots, id \in PaymentIds :
          AllIdle /\ LowestFree(s, Slots) /\ DeletePaymentSelect(s, id)
    \/ \E s \in Slots : DeletePaymentDelete(s)

SpecPayEdit == Init /\ [][NextPayEdit]_vars

\* No simple delete of a rider is in flight.
NoDeleteRider == \A s \in Slots : req[s].op # "deleteRider"

\* Deletes against payments: trips and riders are set up, and riders taken off
\* trips, one request at a time; a simple delete of a rider and an addPayment may
\* then be in flight together, their statements interleaving.
NextDeleteRace ==
    \/ \E f \in RemovalTripForms : AllIdle /\ CreateTrip(f)
    \/ \E s \in Slots, id \in TripIds, err \in NoFailure :
          AllIdle /\ LowestFree(s, Slots) /\ ActivateDeactivate(s, id, err)
    \/ \E s \in Slots, err \in NoFailure : ActivateSet(s, err)
    \/ \E s \in Slots, seats \in RemovalSeatInputs :
          AllIdle /\ LowestFree(s, Slots) /\ AddRiderLookup(s, seats)
    \/ \E s \in Slots : AddRiderInsert(s)
    \/ \E s \in Slots, err \in NoFailure : AddRiderLink(s, err)
    \/ \E s \in Slots, r \in RiderIds :
          AllIdle /\ LowestFree(s, Slots) /\ RemoveFromTripLookup(s, r)
    \/ \E s \in Slots : RemoveFromTripDelete(s)
    \/ \E s \in Slots, r \in RiderIds, amount \in RemovalAmountInputs :
          NoPayment /\ LowestFree(s, Slots) /\ AddPaymentLookup(s, r, amount)
    \/ \E s \in Slots : AddPaymentInsert(s)
    \/ \E s \in Slots, sent \in BOOLEAN : AddPaymentNotified(s, sent)
    \/ \E s \in Slots, r \in RiderIds :
          NoDeleteRider /\ LowestFree(s, Slots) /\ DeleteRiderCount(s, r)
    \/ \E s \in Slots : DeleteRiderDelete(s)

SpecDeleteRace == Init /\ [][NextDeleteRace]_vars

\* Batches of riders added to trips, one request at a time, with every shape of
\* the selection; a statement that has been queued is run in the end.
NextBatch ==
    \/ \E f \in RemovalTripForms : AllIdle /\ CreateTrip(f)
    \/ \E s \in Slots, id \in TripIds, err \in NoFailure :
          AllIdle /\ LowestFree(s, Slots) /\ ActivateDeactivate(s, id, err)
    \/ \E s \in Slots, err \in NoFailure : ActivateSet(s, err)
    \/ \E s \in Slots, seats \in RemovalSeatInputs :
          AllIdle /\ LowestFree(s, Slots) /\ AddRiderLookup(s, seats)
    \/ \E s \in Slots : AddRiderInsert(s)
    \/ \E s \in Slots, err \in NoFailure : AddRiderLink(s, err)
    \/ \E s \in Slots, id \in TripIds, sel \in BatchSelections, seatsForRider \in BatchSeatMaps :
          AllIdle /\ LowestFree(s, Slots) /\ AddRidersLookup(s, id, sel, seatsForRider)
    \/ \E s \in Slots : AddRidersInsert(s)

\* The database runs every statement it was handed.
BatchFairness ==
    \A s \in Slots :
        /\ WF_vars(\E err \in NoFailure : ActivateSet(s, err))
        /\ WF_vars(AddRiderInsert(s))
        /\ WF_vars(\E err \in NoFailure : AddRiderLink(s, err))
        /\ WF_vars(AddRidersInsert(s))

SpecBatch == Init /\ [][NextBatch]_vars /\ BatchFairness

\* Batches of riders added by the transactional handler, one request at a time.
NextBatchTx ==
    \/ \E f \in RemovalTripForms : AllIdle /\ CreateTrip(f)
    \/ \E s \in Slots, id \in TripIds, err \in NoFailure :
          AllIdle /\ LowestFree(s, Slots) /\ ActivateDeactivate(s, id, err)
    \/ \E s \in Slots, err \in NoFailure : ActivateSet(s, err)
    \/ \E s \in Slots, seats \in RemovalSeatInputs :
          AllIdle /\ LowestFree(s, Slots) /\ AddRiderLookup(s, seats)
    \/ \E s \in Slots : AddRiderInsert(s)
    \/ \E s \in Slots, err \in NoFailure : AddRiderLink(s, err)
    \/ \E s \in Slots, id \in TripIds, sel \in TxSelections, seatsForRider \in BatchSeatMaps :
          AllIdle /\ LowestFree(s, Slots) /\ AddRidersTxLookup(s, id, sel, seatsForRider)
    \/ \E s \in Slots : AddRidersTxRiders(s)
    \/ \E s \in Slots : AddRidersTxStatement(s)

SpecBatchTx == Init /\ [][NextBatchTx]_vars

\* Every request in flight is a submission of emergency contacts.
OnlySaveContacts == \A s \in Slots : req[s].op \in {"idle", "saveContacts"}

\* Emergency contacts: trips and riders are set up one request at a time; two
\* submissions of the emergency-contacts form may then be in flight together.
NextContacts ==
    \/ \E f \in RemovalTripForms : AllIdle /\ CreateTrip(f)
    \/ \E s \in Slots, id \in TripIds, err \in NoFailure :
          AllIdle /\ LowestFree(s, Slots) /\ ActivateDeactivate(s, id, err)
    \/ \E s \in Slots, err \in NoFailure : ActivateSet(s, err)
    \/ \E s \in Slots, seats \in RemovalSeatInputs :
          AllIdle /\ LowestFree(s, Slots) /\ AddRiderLookup(s, seats)
    \/ \E s \in Slots : AddRiderInsert(s)
    \/ \E s \in Slots, err \in NoFailure : AddRiderLink(s, err)
    \/ \E s \in Slots, r \in RiderIds, f \in ContactForms :
          OnlySaveContacts /\ LowestFree(s, Slots) /\ SaveContactsQueue(s, r, f)
    \/ \E s \in Slots, down \in BOOLEAN : SaveContactsStatement(s, down)

SpecContacts == Init /\ [][NextContacts]_vars

(* ------------------------------- claims ------------------------------- *)
ActivationInFlight == \E s \in Slots : req[s].op = "activate"
\* The last step sent the response of an activation request.
ActivationAnswered == ev.req.op = "activate" /\ ev.resp # NoResp

\* C1: whenever no activation is in flight, at most one trip has is_active = 1,
\* and no trip is active only if no activation has ever set a trip active.
C1_SingleActiveAfterCalls ==
    ~ActivationInFlight =>
        /\ Cardinality(ActiveTrips) <= 1
        /\ (ActiveTrips = {} => ~everActivated)

\* C2: in no reachable state, whatever the interleaving of two activation
\* requests, do two trips have is_active = 1.
C2_NeverTwoActive == Cardinality(ActiveTrips) <= 1

\* C3: an activation whose tripId matches no trip is answered NotFound (404) and
\* leaves the active flags as they were when the request arrived.
C3_AbsentTripNotFound ==
    (ActivationAnswered /\ ev.req.tripId \notin DOMAIN trips) =>
        (ev.resp.status = 404 /\ ActiveTrips = ev.req.before)

\* C4: an activation whose activate-one statement fails after its deactivate-all
\* statement succeeded leaves the trip that was active before the call active.
C4_AtomicOnError ==
    (ActivationAnswered /\ ev.stmt = "activate_one" /\ ev.err) =>
        ActiveTrips = ev.req.before

NoDuplicatePairs ==
    \A a \in trip_riders, b \in trip_riders :
        (a.trip_id = b.trip_id /\ a.rider_id = b.rider_id) => a = b

\* C5: an INSERT of an add-riders batch never leaves two trip_riders rows for one
\* (trip, rider) pair, and when the pair already has a row the INSERT changes no
\* row of trip_riders.
C5_NoSecondRowForPair ==
    [][(ev'.req.op = "addRiders" /\ ev'.stmt = "insert_trip_rider") =>
          /\ NoDuplicatePairs'
          /\ (TripRiderPrimaryKeyTaken(ev'.req.tripId, ev'.req.riderId) =>
                 trip_riders' = trip_riders)]_vars

\* C5 witness: a batch INSERT for an existing rider and trip was rejected because
\* the pair already had its row.
C5_Witness ==
    /\ ev.req.op = "addRiders" /\ ev.stmt = "insert_trip_rider" /\ ev.err
    /\ TripRiderForeignKeysOk(ev.req.tripId, ev.req.riderId)
    /\ TripRiderPrimaryKeyTaken(ev.req.tripId, ev.req.riderId)

\* C6: the response of an add-riders batch in which an entry was rejected reports
\* the rejected entries to the caller (it is not the plain redirect of success).
C6_FailuresReported ==
    (ev.req.op = "addRiders" /\ ev.resp # NoResp /\ ev.req.rejected # {}) =>
        (ev.resp.status # 302 \/ ev.resp.flash # "")

\* The dashboard has just been rendered.
DashboardRendered == ev.req.op = "dashboard" /\ ev.stmt = "select_riders"

\* The sum of the payments whose rider_id and trip_id are both the given ones.
PaidBy(r, t) ==
    SumFn([p \in {q \in payments : q.rider_id = r /\ q.trip_id = t} |-> p.amount])

\* The one trip_riders row of the pair.
TripRiderOf(t, r) == CHOOSE tr \in trip_riders : tr.trip_id = t /\ tr.rider_id = r

\* C7: on the dashboard of a trip, a rider's collected amount is the sum of the
\* payments whose rider_id and trip_id both match, and the remaining balance is the
\* TripRider balance less that sum; a payment of the rider on another trip is
\* counted in neither.
C7_CollectedIsPerTrip ==
    DashboardRendered =>
        \A row \in ev.resp.locals.riders :
            /\ row.collected = FormatUSD(PaidBy(row.id, ev.req.tripId))
            /\ row.balance
                 = Num(TripRiderOf(ev.req.tripId, row.id).balance - PaidBy(row.id, ev.req.tripId))

\* C7 witness: a dashboard row of a rider who has paid on this trip and on another.
C7_Witness ==
    /\ DashboardRendered
    /\ \E row \in ev.resp.locals.riders, p \in payments, q \in payments :
          /\ p.rider_id = row.id /\ p.trip_id = ev.req.tripId
          /\ q.rider_id = row.id /\ q.trip_id # ev.req.tripId

\* The riders of a trip that have no payment on it.
Unpaid(t) ==
    {tr.rider_id : tr \in {x \in trip_riders :
                              /\ x.trip_id = t
                              /\ ~\E p \in payments : p.rider_id = x.rider_id /\ p.trip_id = t}}

\* C8: a rider with no payment on the trip is shown with collected 0 and a remaining
\* balance equal to the full TripRider balance, never null, and adds 0 to the total
\* collected.
C8_NoPaymentsShownAsZero ==
    DashboardRendered =>
        /\ \A row \in ev.resp.locals.riders :
              row.id \in Unpaid(ev.req.tripId) =>
                  /\ row.collected = FormatUSD(0)
                  /\ ~row.balance.null
                  /\ row.balance = Num(TripRiderOf(ev.req.tripId, row.id).balance)
        /\ ev.resp.locals.TOTAL_COLLECTED
             = FormatUSD(SumFn([r \in {x.id : x \in ev.resp.locals.riders}
                                        \ Unpaid(ev.req.tripId) |->
                                   PaidBy(r, ev.req.tripId)]))

\* C8 witness: a dashboard row of a rider without payments on the trip, who has a
\* positive balance.
C8_Witness ==
    /\ DashboardRendered
    /\ \E row \in ev.resp.locals.riders :
          /\ row.id \in Unpaid(ev.req.tripId)
          /\ TripRiderOf(ev.req.tripId, row.id).balance > 0

\* The trip_riders rows of a trip.
TripRidersOn(t) == {tr \in trip_riders : tr.trip_id = t}

RowOf(t, r) == CHOOSE row \in DashboardRows(t) : row.id = r

\* C10: the statement that stores a payment of a rider on the trip moves the
\* rider's dashboard row by exactly the amount: collected up, remaining balance
\* down, with no state in between; every other row of the trip stays as it was.
C10_PaymentSeenWhole ==
    [][\A t \in TripIds, r \in RiderIds, amount \in AmountInputs :
          (/\ ev'.stmt = "insert_payment" /\ ~ev'.err
           /\ ev'.req = [op |-> "addPayment", riderId |-> r, tripId |-> t, amount |-> amount]
           /\ \E tr \in trip_riders : tr.trip_id = t /\ tr.rider_id = r)
          => /\ OrZero(RowOf(t, r).total_payments)'
                  = OrZero(RowOf(t, r).total_payments) + Numerals[amount]
             /\ RowOf(t, r).balance' = Num(RowOf(t, r).balance.v - Numerals[amount])
             /\ \A row \in DashboardRows(t) : row.id # r => row \in DashboardRows(t)'
      ]_vars

\* C10 witness: the payment request has answered and the dashboard read after it
\* shows the rider with 150 collected and 50 remaining of 200.
C10_Witness ==
    /\ DashboardRendered
    /\ \E row \in ev.resp.locals.riders :
          /\ TripRiderOf(ev.req.tripId, row.id).balance = 200
          /\ row.collected = FormatUSD(150)
          /\ row.balance = Num(50)
    /\ \A s \in Slots : req[s] = Idle

\* The tables the claim of the complete deletion names, in the order it names them.
NamedDeletes == <<"emergency_contacts", "payments", "trip_riders", "riders">>
IsNamedDelete(table) == \E i \in DOMAIN NamedDeletes : NamedDeletes[i] = table

\* The complete deletion has run its last delete.
DeleteCompleteEnded == ev.req.op = "deleteComplete" /\ ev.stmt = "delete_riders"

\* C11: the complete deletion of a rider issues its deletes in the order
\* emergency contacts, payments, trip riders, rider, and when every delete succeeds
\* no emergency contact, payment or trip rider row references the rider and the
\* rider row is gone.
C11_DeletesInOrder ==
    (DeleteCompleteEnded /\ ev.req.failed = {}) =>
        /\ SelectSeq(ev.req.attempted, IsNamedDelete) = NamedDeletes
        /\ RiderRows(ev.req.riderId)
             = [trip_riders |-> {}, payments |-> {}, emergency_contacts |-> {}, rider |-> FALSE]

\* C12: if the payments delete of the complete deletion fails, no later delete is
\* attempted, the rider's trip rider rows and rider row are as they were when the
\* request came in, and the answer is a database error.
C12_FailFast ==
    (/\ ev.req.op = "deleteComplete" /\ "payments" \in ev.req.failed
     /\ ev.req.before.rider /\ ev.req.before.trip_riders # {}) =>
        /\ ev.req.attempted[Len(ev.req.attempted)] = "payments"
        /\ RiderRows(ev.req.riderId).trip_riders = ev.req.before.trip_riders
        /\ RiderRows(ev.req.riderId).rider
        /\ ev.resp.status = 500

\* C13: the simple delete of a rider who has a payment stops after counting the
\* payments: it answers without issuing the delete, and no row of any table is
\* removed, the rider row included.
C13_DeleteGuard ==
    [][(ev'.req.op = "deleteRider" /\ ev'.req.paymentCount > 0) =>
          /\ ev'.stmt = "count_payments" /\ ev'.resp = Redirect("/dashboard")
          /\ UNCHANGED <<trips, riders, trip_riders, payments, emergency_contacts,
                         medical_notes>>]_vars

\* C13 witness: the simple delete has answered for an existing rider with a payment.
C13_Witness ==
    /\ ev.req.op = "deleteRider" /\ ev.req.paymentCount > 0
    /\ ev.resp # NoResp
    /\ ev.req.riderId \in riders

\* C14: addRider when no trip is active (none created, or none activated) sends
\* the caller to the trips page and creates no rider row and no trip rider row.
C14_NoActiveTripNoRider ==
    [][(ev'.req.op = "addRider" /\ ev'.stmt = "select_active_trip" /\ ActiveTrips = {}) =>
          /\ ev'.resp = Redirect("/trips")
          /\ riders' = riders /\ trip_riders' = trip_riders
          /\ req' = req]_vars

\* C14 witness: addRider has been turned away while a trip exists that was never
\* activated.
C14_Witness ==
    /\ ev.req.op = "addRider" /\ ev.resp = Redirect("/trips")
    /\ DOMAIN trips # {} /\ ~everActivated /\ riders = {}

\* C15: when the trip rider insert of addRider fails, the rider row the call
\* created does not remain.
C15_AddRiderAtomic ==
    (ev.req.op = "addRider" /\ ev.stmt = "insert_trip_rider" /\ ev.err) =>
        ev.req.riderId \notin riders

\* C16: addPayment when no trip is active answers 'No active trip found', inserts
\* no payment row and does not call the notifier (the request ends there).
C16_NoActiveTripNoPayment ==
    [][(ev'.req.op = "addPayment" /\ ev'.stmt = "select_active_trip" /\ ActiveTrips = {}) =>
          /\ ev'.resp = SendStatus(404, "No active trip found")
          /\ payments' = payments
          /\ req' = req]_vars

\* C16 witness: an addPayment for an existing rider was answered 404.
C16_Witness ==
    /\ ev.req.op = "addPayment" /\ ev.resp.status = 404
    /\ ev.req.riderId \in riders

\* C17: a payment row carries the trip that is active at the moment the row is
\* created.
C17_TaggedWithActiveTrip ==
    (ev.req.op = "addPayment" /\ ev.stmt = "insert_payment" /\ ~ev.err) =>
        ActiveTrips = {ev.req.tripId}

\* The payment row a request has written.
PaymentWritten(info) ==
    \E p \in payments :
        /\ p.rider_id = info.riderId /\ p.trip_id = info.tripId
        /\ p.amount = Numerals[info.amount]

\* C18: when the notifier fails the payment row stays and the caller is still
\* redirected to the rider's payment list.
C18_NotifierFailureSwallowed ==
    (ev.req.op = "addPayment" /\ ev.stmt = "send_receipt" /\ ev.err) =>
        /\ PaymentWritten(ev.req)
        /\ ev.resp.status = 302 /\ ev.resp.location = "/rider/:id/payments"

\* C18 witness: the receipt of a written payment has failed.
C18_Witness ==
    ev.req.op = "addPayment" /\ ev.stmt = "send_receipt" /\ ev.err /\ PaymentWritten(ev.req)

\* C19: the response of addPayment does not wait for the notifier: it is sent by
\* the step that writes the payment row.
C19_ResponseWithoutNotifier ==
    (ev.req.op = "addPayment" /\ ev.stmt = "insert_payment" /\ ~ev.err) =>
        ev.resp # NoResp

\* What the claim asks of an add-trip form: a name, parseable start and end dates,
\* numeric costs that are not negative, a positive whole number of seats.
FormIsValid(f) ==
    /\ f.name # ""
    /\ ~DateParseIsNaN(f.start_date) /\ ~DateParseIsNaN(f.end_date)
    /\ ~ParseFloat(f.cost_of_rental).nan /\ ParseFloat(f.cost_of_rental).v >= 0
    /\ ~ParseFloat(f.cost_per_seat).nan /\ ParseFloat(f.cost_per_seat).v >= 0
    /\ ~ParseInt(f.total_seats).nan /\ ParseInt(f.total_seats).v >= 1

\* C20: createTrip inserts no trip row for a form with an empty name, an
\* unparseable start or end date, a cost that is not numeric or is negative, or a
\* number of seats that is not a positive integer; a valid form inserts exactly one.
C20_CreateTripValidates ==
    [][ev'.req.op = "createTrip" =>
          IF FormIsValid(ev'.req.form)
          THEN Cardinality(DOMAIN trips') = Cardinality(DOMAIN trips) + 1
          ELSE trips' = trips]_vars

\* editRider has run its trip_riders statement and answered.
EditRiderAnswered == ev.req.op = "editRider" /\ ev.stmt = "update_trip_riders"

\* The trip_riders rows of a pair.
RowsOfPair(t, r) == {tr \in trip_riders : tr.trip_id = t /\ tr.rider_id = r}

\* C21: after editRider of an existing rider, exactly one trip_riders row exists
\* for (active trip, rider), created if there was none, and it holds the seats,
\* balance and instructions_sent of the form.
C21_EditUpserts ==
    (EditRiderAnswered /\ ev.req.riderId \in riders) =>
        \A t \in ActiveTrips :
            RowsOfPair(t, ev.req.riderId)
              = {[trip_id |-> t, rider_id |-> ev.req.riderId,
                  seats |-> Numerals[ev.req.form.seats],
                  balance |-> Numerals[ev.req.form.balance],
                  instructions_sent |-> Ticked(ev.req.form.instructions_sent)]}

\* C28: the trip_riders statement of editRider, run while a trip is active, leaves
\* the rows of every trip other than the active one as they were.
C28_EditOnlyActiveTrip ==
    [][(ev'.req.op = "editRider" /\ ev'.stmt = "update_trip_riders" /\ ActiveTrips # {}) =>
          \A tr \in trip_riders : tr.trip_id \notin ActiveTrips => tr \in trip_riders']_vars

\* C29: a row whose seats editRider has changed has the balance of the new seats
\* times the cost per seat of its trip.
C29_EditRecalculatesBalance ==
    [][(ev'.req.op = "editRider" /\ ev'.stmt = "update_trip_riders") =>
          \A old \in trip_riders, new \in trip_riders' :
              (/\ new.trip_id = old.trip_id /\ new.rider_id = old.rider_id
               /\ new.seats # old.seats)
              => new.balance = new.seats * trips[new.trip_id].cost_per_seat]_vars

\* C22: removing a rider from the trip deletes the trip_riders row of that (trip,
\* rider) pair and nothing else: the rider row, the rider's rows on other trips,
\* the rows of other riders, the payments and the trips stay as they were.
C22_RemoveOnlyThePair ==
    [][(ev'.req.op = "removeFromTrip" /\ ev'.stmt = "delete_trip_rider") =>
          /\ trip_riders' = {tr \in trip_riders :
                                ~(tr.trip_id = ev'.req.tripId /\ tr.rider_id = ev'.req.riderId)}
          /\ UNCHANGED <<trips, riders, payments, emergency_contacts, medical_notes>>]_vars

\* C22 witness: a rider on two trips has been removed from one and is still on
\* the other.
C22_Witness ==
    /\ ev.req.op = "removeFromTrip" /\ ev.stmt = "delete_trip_rider"
    /\ ev.req.removed # {}
    /\ ev.req.riderId \in riders
    /\ \E tr \in trip_riders : tr.rider_id = ev.req.riderId /\ tr.trip_id # ev.req.tripId

C24_BalanceIsSeatsTimesCost ==
    [][ev'.stmt = "insert_trip_rider" =>
          \A tr \in trip_riders' \ trip_riders :
              tr.balance = tr.seats * trips[tr.trip_id].cost_per_seat]_vars

\* C24 witness: a batch has inserted a row of two seats on a trip of 100 a seat.
C24_Witness ==
    /\ ev.req.op = "addRiders" /\ ev.stmt = "insert_trip_rider" /\ ~ev.err
    /\ \E tr \in trip_riders :
          /\ tr.trip_id = ev.req.tripId /\ tr.rider_id = ev.req.riderId
          /\ tr.seats = 2 /\ tr.balance = 200

\* C26: every trip_riders row has a whole number of seats, one or more, whatever
\* seats value addRider, addRidersToTrip or editRider was given.
C26_SeatsAtLeastOne == \A tr \in trip_riders : tr.seats >= 1

\* C25: editPayment and deletePayment with a payment id that does not exist
\* answer NotFound and leave every payment row as it was.
C25_AbsentPaymentNotFound ==
    [][(/\ ev'.req.op \in {"editPayment", "deletePayment"}
        /\ ev'.stmt = "select_payment_rider" /\ ~ev'.req.found)
       => (ev'.resp.status = 404 /\ payments' = payments)]_vars

\* C27: a dashboard read that finds no active trip goes on to count the trips and
\* is answered with a redirect, never a rendering: to the add-trip page when there
\* is no trip at all, to the trips list when there are trips.
C27_DashboardRedirects ==
    [][/\ (ev'.req.op = "dashboard" /\ ev'.stmt = "select_active_trip" /\ ActiveTrips = {})
            => \E s \in Slots : req[s] = Idle /\ req'[s] = [op |-> "dashboard", pc |-> "count"]
       /\ (ev'.req.op = "dashboard" /\ ev'.stmt = "count_trips")
            => ev'.resp = IF DOMAIN trips = {} THEN Redirect("/add-trip")
                          ELSE Redirect("/trips")]_vars

\* C27 witness: with trips but none active, the dashboard has sent the caller to
\* the trips list.
C27_Witness ==
    /\ ev.req.op = "dashboard" /\ ev.stmt = "count_trips"
    /\ ev.resp = Redirect("/trips")
    /\ DOMAIN trips # {} /\ ActiveTrips = {}

\* C30: the running total of the receipt is the sum of the rider's payments on
\* the trip of the payment, the new payment counted once, which is the collected
\* amount the dashboard shows.
C30_RunningTotalCountsOnce ==
    (ev.req.op = "addPayment" /\ ev.stmt = "send_receipt") =>
        ev.req.currentBalance = PaidBy(ev.req.riderId, ev.req.tripId)

\* The payments of a rider, on whatever trip.
PaymentsOf(r) == {p \in payments : p.rider_id = r}

\* The simple delete never leaves a payment of a rider who is gone.
NoPaymentOfDeletedRider == \A p \in payments : p.rider_id \in riders

\* C31: a simple deleteRider racing with an addPayment for the same rider never
\* leaves the rider deleted with a payment of theirs in place, and the count of
\* payments and the DELETE are one atomic step: the DELETE runs on the payments
\* that were counted.
C31_DeleteGuardAtomic ==
    /\ NoPaymentOfDeletedRider
    /\ (/\ ev.req.op = "deleteRider" /\ ev.stmt = "delete_rider"
        /\ ~\E tr \in trip_riders : tr.rider_id = ev.req.riderId)
          => Cardinality(PaymentsOf(ev.req.riderId)) = ev.req.paymentCount

\* C32: every addRidersToTrip request that found its trip is answered in the end,
\* whatever the shape of the selection and whether its inserts succeed or fail.
C32_AddRidersAnswered ==
    \A s \in Slots : (req[s].op = "addRiders") ~> (req[s] = Idle)

\* C33: with no request in flight, every payment belongs to a rider who is on the
\* trip of the payment: its (trip_id, rider_id) has a trip_riders row, so the
\* dashboard of that trip counts it.
C33_PaymentHasTripRider ==
    AllIdle => \A p \in payments : RowsOfPair(p.trip_id, p.rider_id) # {}

\* C34: the transactional add-riders batch is all or nothing: when an INSERT of
\* the batch has failed, the transaction is ended by ROLLBACK, not COMMIT, and no
\* row of the batch stays in trip_riders beyond those that were there at BEGIN.
C34_BatchAllOrNothing ==
    (/\ ev.req.op = "addRidersTx" /\ ev.stmt \in {"commit", "rollback"}
     /\ ev.req.failed # {})
       => (ev.stmt = "rollback" /\ trip_riders = ev.req.before)

\* The emergency contacts of a rider.
ContactsOf(r) == {c \in emergency_contacts : c.rider_id = r}

\* C35: whatever submissions of the emergency-contacts form were made, two of
\* them in flight together included, a rider has at most 2 emergency_contacts
\* rows, and at most one with contact_order 1 and one with contact_order 2.
C35_AtMostTwoContacts ==
    \A r \in RiderIds :
        /\ Cardinality(ContactsOf(r)) <= 2
        /\ \A o \in {1, 2} : Cardinality({c \in ContactsOf(r) : c.contact_order = o}) <= 1

\* C35 witness: two submissions for a rider are in flight together, the second
\* queued behind the first, and the rider has both contacts.
C35_Witness ==
    \E s, t \in Slots :
        /\ s # t /\ req[s].op = "saveContacts" /\ req[t].op = "saveContacts"
        /\ req[s].riderId = req[t].riderId /\ s \in req[t].behind
        /\ Cardinality(ContactsOf(req[s].riderId)) = 2

====
